---- MODULE Spec2Model ----
(***************************************************************************)
(* Session state management of the news chatbot backend:                   *)
(*   SessionService         (src/services/sessionService.js)  cache tier   *)
(*   SessionStorageService  (src/unnamed/part_001)            durable tier *)
(*   TranscriptService      (src/unnamed/part_004)            transcripts  *)
(*   ChatService.saveSessionTranscript (src/services/chatService.js)       *)
(*   the chat, session and transcript routes (src/chatbot.js)              *)
(*                                                                         *)
(* Every await of a method is one store command.  A command either         *)
(* succeeds or throws; the methods below are the code's control flow over  *)
(* those outcomes.  The redis client library and the MySQL server are the  *)
(* environment: the client's 'connect' / 'error' events, the outcome of    *)
(* connect() and the passing of time are actions of their own.             *)
(***************************************************************************)
EXTENDS Integers, Sequences, FiniteSets, TLC

VARIABLES
    clientState,      \* the redis client: "connecting", "open" or "failed"
    isConnected,      \* SessionService.isConnected
    fallbackStorage,  \* SessionService.fallbackStorage: [defined, map]; an entry
                      \* of the Map is never an empty array, so <<>> is "no entry"
    fallbackTitles,   \* SessionService.fallbackTitles (a Map, created lazily)
    redisList,        \* redis: the list under 'session:<id>' (<<>>: no key)
    redisTTL,         \* redis: TTL of 'session:<id>' (-2 no key, -1 no expiry)
    redisTitle,       \* redis: the string under 'session_title:<id>'
    redisTitleTTL,    \* redis: TTL of 'session_title:<id>'
    pool,             \* SessionStorageService.pool: TRUE once createPool returned.
                      \* TranscriptService creates its own pool with the same
                      \* initializeDatabase code and the same DB_* settings, so
                      \* the two pools exist or fail together and are one variable
    chatMessages,     \* MySQL table chat_messages, in insertion (id) order
    transcripts,      \* MySQL tables transcripts and messages: one record per
                      \* transcript row, with its rows of messages
    now,              \* the clock, in ticks of TickStep seconds
    chat,             \* per request in flight (POST /api/chat or 'send-message',
                      \* GET /api/session/:sessionId/history): where the handler
                      \* stands and its local variables
    cleanup,          \* the running cleanupEmptySessions call and its locals
    appends,          \* per addMessage call taken await by await: where it
                      \* stands, its session and its messageData
    restores,         \* per restoreSessionFromStorage call taken await by
                      \* await: where it stands, its session, its redisMessages
                      \* and how many of them it has pushed
    sessions,         \* ChatService.sessions: per session id [defined, history]
    appended,         \* per session: every entry addToHistory has appended
    last,             \* the call that completed last, and what it returned
    log               \* per session: the turns addMessage has pushed since the
                      \* session was last cleared, expired or restored, each with
                      \* whether the call returned

vars == <<clientState, isConnected, fallbackStorage, fallbackTitles, redisList,
          redisTTL, redisTitle, redisTitleTTL, pool, chatMessages, transcripts,
          now, chat, cleanup, appends, restores, sessions, appended, last, log>>

envVars == <<clientState, isConnected>>

listVars == <<fallbackStorage, redisList, redisTTL>>

titleVars == <<fallbackTitles, redisTitle, redisTitleTTL>>

durableVars == <<pool, chatMessages, transcripts>>

contextVars == <<sessions, appended>>

\* what the methods of SessionService and of the storage services leave to
\* their callers
procVars == <<chat, cleanup, appends, restores, contextVars>>

-----------------------------------------------------------------------------
(* Bounds of the model.                                                    *)

MaxLen == 2         \* turns addMessage appends to one cached session
MaxRows == 2        \* rows of chat_messages
MaxTime == 2        \* clock ticks
MaxLimit == 1       \* largest explicit `limit` argument tried
MaxAppended == 12   \* entries direct calls append to one ChatService history
MaxChats == 1       \* answered chat requests after which a session takes no more

Sessions == {"s1", "s2"}
Requests == {"r1", "r2"}
AppendCalls == {"a1", "a2"}
RestoreCalls == {"c1", "c2"}
ChatSessions == {"s1"}
TranscriptSessions == {"s1"}
UserTexts == {"hi", "any news?"}
BotTexts == {"markets fell."}
Texts == UserTexts \cup BotTexts
NoSources == <<>>
SomeSources == <<"reuters">>

NoTitle == <<>>     \* redis GET of a missing key, Map.get of a missing entry

SESSION_TTL == 3600 * 24
TickStep == SESSION_TTL \div 2
DefaultLimit == 50
NoKey == 0 - 2
NoExpiry == 0 - 1

-----------------------------------------------------------------------------
(* Sequences.                                                              *)

Reverse(s) == [i \in 1..Len(s) |-> s[Len(s) + 1 - i]]

Min(a, b) == IF a < b THEN a ELSE b

SetMin(S) == CHOOSE x \in S : \A y \in S : x <= y

SetMax(S) == CHOOSE x \in S : \A y \in S : x >= y

\* Array.prototype.slice(0, n) for n >= 0
Slice0(s, n) == SubSeq(s, 1, Min(n, Len(s)))

\* redis LRANGE key start stop: 0-based, inclusive, negative indexes count
\* from the tail, out-of-range indexes are clipped
LRange(list, start, stop) ==
    LET n == Len(list)
        s0 == IF start < 0 THEN n + start ELSE start
        e0 == IF stop < 0 THEN n + stop ELSE stop
        s1 == IF s0 < 0 THEN 0 ELSE s0
        e1 == IF e0 >= n THEN n - 1 ELSE e0
    IN  IF s1 > e1 \/ s1 >= n THEN <<>> ELSE SubSeq(list, s1 + 1, e1 + 1)

-----------------------------------------------------------------------------
(* Strings are sequences of one-character strings where the code looks     *)
(* inside them (title generation); elsewhere a text is an opaque value.    *)

LowerCase == <<"a", "b", "c", "d", "e", "f", "g", "h", "i", "j", "k", "l", "m",
               "n", "o", "p", "q", "r", "s", "t", "u", "v", "w", "x", "y", "z">>

UpperCase == <<"A", "B", "C", "D", "E", "F", "G", "H", "I", "J", "K", "L", "M",
               "N", "O", "P", "Q", "R", "S", "T", "U", "V", "W", "X", "Y", "Z">>

Digits == {"0", "1", "2", "3", "4", "5", "6", "7", "8", "9"}

Whitespace == {" ", "\t", "\n", "\r"}

\* the characters the regular expression /[^\w\s.,!?-]/g leaves in place
KeptChars ==
    {LowerCase[i] : i \in 1..26} \cup {UpperCase[i] : i \in 1..26} \cup Digits
        \cup {"_"} \cup Whitespace \cup {".", ",", "!", "?", "-"}

Chars(text) ==
    CASE text = "hi" -> <<"h", "i">>
      [] text = "any news?" -> <<"a", "n", "y", " ", "n", "e", "w", "s", "?">>
      [] text = "markets fell." ->
            <<"m", "a", "r", "k", "e", "t", "s", " ", "f", "e", "l", "l", ".">>
      [] OTHER -> <<>>

\* String.prototype.trim
Trim(cs) ==
    LET idx == {i \in 1..Len(cs) : cs[i] \notin Whitespace}
    IN  IF idx = {} THEN <<>> ELSE SubSeq(cs, SetMin(idx), SetMax(idx))

\* String.prototype.toUpperCase on one character
ToUpperCase(c) ==
    IF \E i \in 1..26 : LowerCase[i] = c
    THEN UpperCase[CHOOSE i \in 1..26 : LowerCase[i] = c]
    ELSE c

NewChat == <<"N", "e", "w", " ", "C", "h", "a", "t">>

\* SessionService.generateTitleFromMessage({ text })
generateTitleFromMessage(text) ==
    LET cs == Chars(text)
        trimmed == Trim(cs)
        cut == IF Len(trimmed) > 50
               THEN SubSeq(trimmed, 1, 47) \o <<".", ".", ".">>
               ELSE trimmed
        title == SelectSeq(cut, LAMBDA c : c \in KeptChars)
    IN  IF cs = <<>> THEN NewChat     \* '' || message: not a string
        ELSE IF Len(title) < 3 THEN NewChat
        ELSE <<ToUpperCase(title[1])>> \o Tail(title)

-----------------------------------------------------------------------------
(* The state after construction: init() has created the client and         *)
(* registered its handlers, connect() is pending; the storage service has  *)
(* called createPool, which returned or threw.                             *)

NoCall ==
    [op |-> "none", sid |-> "", status |-> "ok", flag |-> FALSE, msgs |-> <<>>,
     limit |-> 0, id |-> 0, error |-> FALSE, clean |-> TRUE]

IdleRequest == [pc |-> "idle", sid |-> "", text |-> "", isFirstMessage |-> FALSE, http |-> 0]

IdleCleanup == [pc |-> "idle", keys |-> <<>>, sessions |-> <<>>]

\* overlapped: another call on the same session was in flight during this one
IdleAppend == [pc |-> "idle", sid |-> "", turn |-> <<>>, overlapped |-> FALSE]

IdleRestore == [pc |-> "idle", sid |-> "", msgs |-> <<>>, k |-> 0, limit |-> 0, flag |-> FALSE]

\* ChatService.sessions has no entry for the session id
NoSession == [defined |-> FALSE, history |-> <<>>]

InitWith(pools) ==
    /\ clientState = "connecting"
    /\ isConnected = FALSE
    /\ fallbackStorage = [defined |-> FALSE, map |-> [s \in Sessions |-> <<>>]]
    /\ fallbackTitles = [s \in Sessions |-> NoTitle]
    /\ redisList = [s \in Sessions |-> <<>>]
    /\ redisTTL = [s \in Sessions |-> NoKey]
    /\ redisTitle = [s \in Sessions |-> NoTitle]
    /\ redisTitleTTL = [s \in Sessions |-> NoKey]
    /\ pool \in pools
    /\ chatMessages = <<>>
    /\ transcripts = <<>>
    /\ now = 0
    /\ chat = [r \in Requests |-> IdleRequest]
    /\ cleanup = IdleCleanup
    /\ appends = [a \in AppendCalls |-> IdleAppend]
    /\ restores = [c \in RestoreCalls |-> IdleRestore]
    /\ sessions = [s \in Sessions |-> NoSession]
    /\ appended = [s \in Sessions |-> <<>>]
    /\ last = NoCall
    /\ log = [s \in Sessions |-> <<>>]

\* createPool returned
Init == InitWith({TRUE})

\* createPool returned or threw
InitStorage == InitWith(BOOLEAN)

-----------------------------------------------------------------------------
(* The environment.                                                        *)

\* client.on('connect'): the socket is up.  The client delivers no event
\* once connect() has rejected (it has stopped reconnecting).
ConnectEvent ==
    /\ clientState \in {"connecting", "open"}
    /\ clientState' = "open"
    /\ isConnected' = TRUE
    /\ last' = NoCall
    /\ UNCHANGED <<listVars, titleVars, durableVars, procVars, now, log>>

\* client.on('error')
ErrorEvent ==
    /\ clientState \in {"connecting", "open"}
    /\ isConnected' = FALSE
    /\ last' = NoCall
    /\ UNCHANGED <<clientState, listVars, titleVars, durableVars, procVars, now, log>>

\* init(): createClient or connect() threw before the client ever connected
ConnectRejected ==
    /\ clientState = "connecting"
    /\ clientState' = "failed"
    /\ fallbackStorage' = [defined |-> TRUE, map |-> [s \in Sessions |-> <<>>]]
    /\ isConnected' = FALSE
    /\ last' = NoCall
    /\ UNCHANGED <<redisList, redisTTL, titleVars, durableVars, procVars, now, log>>

\* redis expiry: the remaining TTL of a key after TickStep more seconds
Aged(ttl) == IF ttl > TickStep THEN ttl - TickStep ELSE IF ttl > 0 THEN NoKey ELSE ttl

\* TickStep seconds pass; redis drops the keys whose TTL has run out
Tick ==
    /\ now < MaxTime
    /\ now' = now + 1
    /\ redisTTL' = [s \in Sessions |-> Aged(redisTTL[s])]
    /\ redisList' = [s \in Sessions |->
                        IF Aged(redisTTL[s]) = NoKey THEN <<>> ELSE redisList[s]]
    /\ redisTitleTTL' = [s \in Sessions |-> Aged(redisTitleTTL[s])]
    /\ redisTitle' = [s \in Sessions |->
                        IF Aged(redisTitleTTL[s]) = NoKey THEN NoTitle ELSE redisTitle[s]]
    /\ log' = [s \in Sessions |->
                        IF redisTTL[s] > 0 /\ Aged(redisTTL[s]) = NoKey THEN <<>> ELSE log[s]]
    /\ last' = NoCall
    /\ UNCHANGED <<envVars, fallbackStorage, fallbackTitles, durableVars, procVars>>

-----------------------------------------------------------------------------
(* SessionService.  `this.client` is set whenever isConnected is, so the   *)
(* test `this.isConnected && this.client` is the test of isConnected.      *)
(* Reading or writing this.fallbackStorage while it is undefined throws a  *)
(* TypeError; thrown inside a catch block, it leaves the method.           *)
(* The methods leave chat and cleanup to their callers.                    *)

\* a call that returned; id: the transcriptId it returned (0: none); error: the
\* result carries an `error` field; clean: no command it issued failed
Returned(op, s, flag, msgs, clean) ==
    [op |-> op, sid |-> s, status |-> "ok", flag |-> flag, msgs |-> msgs,
     limit |-> 0, id |-> 0, error |-> FALSE, clean |-> clean]

Threw(op, s) ==
    [op |-> op, sid |-> s, status |-> "threw", flag |-> FALSE, msgs |-> <<>>,
     limit |-> 0, id |-> 0, error |-> FALSE, clean |-> FALSE]

\* the commands a method issues against redis succeed or throw
Outcomes(failures) == IF isConnected THEN {"ok"} \cup failures ELSE {"offline"}

IdsOf(msgs) == {msgs[i].id : i \in DOMAIN msgs}

TurnsOf(entries) == [i \in DOMAIN entries |-> entries[i].turn]

\* uuidv4(): a value that no turn of the session the state still holds
\* carries (ids are compared within a session only).  The least such number
\* stands for it; Uuids(s, n) are n of them, in the order drawn.
UsedIds(s) ==
    (IF last.sid = s /\ last.op # "saveTranscript" THEN IdsOf(last.msgs) ELSE {})
        \cup IdsOf(redisList[s]) \cup IdsOf(fallbackStorage.map[s])
        \cup IdsOf(TurnsOf(log[s]))
        \cup {appends[a].turn.id :
                a \in {b \in AppendCalls : appends[b].pc # "idle" /\ appends[b].sid = s}}
        \cup UNION {IdsOf(restores[c].msgs) :
                c \in {d \in RestoreCalls : restores[d].sid = s}}

RECURSIVE FreshIds(_, _)
FreshIds(used, n) ==
    IF n = 0 THEN <<>>
    ELSE LET x == SetMin((1..(Cardinality(used) + 1)) \ used)
         IN  <<x>> \o FreshIds(used \cup {x}, n - 1)

Uuids(s, n) == FreshIds(UsedIds(s), n)

\* The turn record of the cache tier.  Its timestamp (new Date(), or the row's
\* timestamp on restore) is read by nothing but getAllSessions' lastActivity
\* and is left out.
Turn(id, text, isUser, sources) ==
    [id |-> id, text |-> text, isUser |-> isUser, sources |-> sources]

\* the turns of a session in the store the service is reading at the moment
Cached(s) == IF isConnected THEN redisList[s] ELSE fallbackStorage.map[s]

\* addMessage without the EXPIRE after the LPUSH
AddMessageNoExpire(s, text, isUser, sources) ==
    /\ Len(redisList[s]) < MaxLen
    /\ Len(fallbackStorage.map[s]) < MaxLen
    /\ \E cmd \in Outcomes({"lPushThrows"}) :
         LET messageData == Turn(Uuids(s, 1)[1], text, isUser, sources)
             caught == cmd # "ok" /\ fallbackStorage.defined
             returned == cmd = "ok" \/ fallbackStorage.defined
         IN  /\ redisList' = IF cmd = "ok"
                             THEN [redisList EXCEPT ![s] = <<messageData>> \o @]
                             ELSE redisList
             /\ redisTTL' = IF cmd = "ok"
                            THEN [redisTTL EXCEPT ![s] = IF @ = NoKey THEN NoExpiry ELSE @]
                            ELSE redisTTL
             /\ fallbackStorage' =
                    IF caught
                    THEN [fallbackStorage EXCEPT !.map[s] = <<messageData>> \o @]
                    ELSE fallbackStorage
             /\ last' = IF returned
                        THEN Returned("addMessage", s, FALSE, <<messageData>>,
                                      cmd \in {"ok", "offline"})
                        ELSE Threw("addMessage", s)
             /\ log' = IF cmd = "ok" \/ caught
                       THEN [log EXCEPT ![s] =
                                Append(@, [turn |-> messageData, returned |-> returned])]
                       ELSE log
    /\ UNCHANGED <<envVars, titleVars, durableVars, now>>

\* addMessage(sessionId, message, isUser)
AddMessage(s, text, isUser, sources) ==
    /\ Len(redisList[s]) < MaxLen
    /\ Len(fallbackStorage.map[s]) < MaxLen
    /\ \E cmd \in Outcomes({"lPushThrows", "expireThrows"}) :
         LET messageData == Turn(Uuids(s, 1)[1], text, isUser, sources)
             pushed == cmd \in {"ok", "expireThrows"}
             caught == cmd # "ok" /\ fallbackStorage.defined
             returned == cmd = "ok" \/ fallbackStorage.defined
         IN  /\ redisList' = IF pushed
                             THEN [redisList EXCEPT ![s] = <<messageData>> \o @]
                             ELSE redisList
             /\ redisTTL' = CASE cmd = "ok" -> [redisTTL EXCEPT ![s] = SESSION_TTL]
                              [] cmd = "expireThrows" ->
                                    [redisTTL EXCEPT ![s] = IF @ = NoKey THEN NoExpiry ELSE @]
                              [] OTHER -> redisTTL
             /\ fallbackStorage' =
                    IF caught
                    THEN [fallbackStorage EXCEPT !.map[s] = <<messageData>> \o @]
                    ELSE fallbackStorage
             /\ last' = IF returned
                        THEN Returned("addMessage", s, FALSE, <<messageData>>,
                                      cmd \in {"ok", "offline"})
                        ELSE Threw("addMessage", s)
             /\ log' = IF pushed \/ caught
                       THEN [log EXCEPT ![s] =
                                Append(@, [turn |-> messageData, returned |-> returned])]
                       ELSE log
    /\ UNCHANGED <<envVars, titleVars, durableVars, now>>

\* addMessage await by await, for calls that overlap: the test of isConnected
\* and the LPUSH, or the unshift on the fallback Map, which has no await
Overlapping(a, s) == {b \in AppendCalls \ {a} : appends[b].pc = "expire" /\ appends[b].sid = s}

\* the log entry of a turn records that its call has returned
LogReturned(s, turn) ==
    [log EXCEPT ![s] = [i \in DOMAIN @ |->
                           IF @[i].turn = turn THEN [@[i] EXCEPT !.returned = TRUE] ELSE @[i]]]

\* a first step that stores the turn with SET in place of LPUSH
AddMessageStartOverwrite(a, s, text, isUser, sources) ==
    /\ appends[a].pc = "idle"
    /\ Len(redisList[s]) < MaxLen
    /\ Len(fallbackStorage.map[s]) < MaxLen
    /\ \E cmd \in Outcomes({"lPushThrows"}) :
         LET messageData == Turn(Uuids(s, 1)[1], text, isUser, sources)
             caught == cmd # "ok" /\ fallbackStorage.defined
             call == [pc |-> "expire", sid |-> s, turn |-> messageData,
                      overlapped |-> Overlapping(a, s) # {}]
         IN  /\ redisList' = IF cmd = "ok"
                             THEN [redisList EXCEPT ![s] = <<messageData>>]
                             ELSE redisList
             /\ redisTTL' = IF cmd = "ok"
                            THEN [redisTTL EXCEPT ![s] = NoExpiry]
                            ELSE redisTTL
             /\ fallbackStorage' =
                    IF caught
                    THEN [fallbackStorage EXCEPT !.map[s] = <<messageData>>]
                    ELSE fallbackStorage
             /\ appends' =
                    [b \in AppendCalls |->
                        IF b = a
                        THEN [call EXCEPT !.pc = IF cmd = "ok" THEN "expire"
                                                 ELSE IF caught THEN "returned" ELSE "threw"]
                        ELSE IF b \in Overlapping(a, s)
                        THEN [appends[b] EXCEPT !.overlapped = TRUE]
                        ELSE appends[b]]
             /\ last' = IF cmd = "ok" THEN last
                        ELSE IF caught
                        THEN Returned("addMessage", s, FALSE, <<messageData>>, cmd = "offline")
                        ELSE Threw("addMessage", s)
             /\ log' = IF cmd = "ok" \/ caught
                       THEN [log EXCEPT ![s] =
                                Append(@, [turn |-> messageData, returned |-> caught])]
                       ELSE log
    /\ UNCHANGED <<envVars, titleVars, durableVars, now, chat, cleanup, restores, contextVars>>

AddMessageStart(a, s, text, isUser, sources) ==
    /\ appends[a].pc = "idle"
    /\ Len(redisList[s]) < MaxLen
    /\ Len(fallbackStorage.map[s]) < MaxLen
    /\ \E cmd \in Outcomes({"lPushThrows"}) :
         LET messageData == Turn(Uuids(s, 1)[1], text, isUser, sources)
             caught == cmd # "ok" /\ fallbackStorage.defined
             call == [pc |-> "expire", sid |-> s, turn |-> messageData,
                      overlapped |-> Overlapping(a, s) # {}]
         IN  /\ redisList' = IF cmd = "ok"
                             THEN [redisList EXCEPT ![s] = <<messageData>> \o @]
                             ELSE redisList
             /\ redisTTL' = IF cmd = "ok"
                            THEN [redisTTL EXCEPT ![s] = IF @ = NoKey THEN NoExpiry ELSE @]
                            ELSE redisTTL
             /\ fallbackStorage' =
                    IF caught
                    THEN [fallbackStorage EXCEPT !.map[s] = <<messageData>> \o @]
                    ELSE fallbackStorage
             /\ appends' =
                    [b \in AppendCalls |->
                        IF b = a
                        THEN [call EXCEPT !.pc = IF cmd = "ok" THEN "expire"
                                                 ELSE IF caught THEN "returned" ELSE "threw"]
                        ELSE IF b \in Overlapping(a, s)
                        THEN [appends[b] EXCEPT !.overlapped = TRUE]
                        ELSE appends[b]]
             /\ last' = IF cmd = "ok" THEN last
                        ELSE IF caught
                        THEN Returned("addMessage", s, FALSE, <<messageData>>, cmd = "offline")
                        ELSE Threw("addMessage", s)
             /\ log' = IF cmd = "ok" \/ caught
                       THEN [log EXCEPT ![s] =
                                Append(@, [turn |-> messageData, returned |-> caught])]
                       ELSE log
    /\ UNCHANGED <<envVars, titleVars, durableVars, now, chat, cleanup, restores, contextVars>>

\* the EXPIRE of the call (on a key that is gone it sets nothing), then the
\* return; an EXPIRE that throws sends the call through the catch block
AddMessageExpire(a) ==
    /\ appends[a].pc = "expire"
    /\ \E cmd \in {"ok", "expireThrows"} :
         LET s == appends[a].sid
             messageData == appends[a].turn
             caught == cmd # "ok" /\ fallbackStorage.defined
             returned == cmd = "ok" \/ caught
         IN  /\ redisTTL' = IF cmd = "ok" /\ redisList[s] # <<>>
                            THEN [redisTTL EXCEPT ![s] = SESSION_TTL]
                            ELSE redisTTL
             /\ fallbackStorage' =
                    IF caught
                    THEN [fallbackStorage EXCEPT !.map[s] = <<messageData>> \o @]
                    ELSE fallbackStorage
             /\ appends' = [appends EXCEPT ![a].pc = IF returned THEN "returned" ELSE "threw"]
             /\ last' = IF returned
                        THEN Returned("addMessage", s, FALSE, <<messageData>>, cmd = "ok")
                        ELSE Threw("addMessage", s)
             /\ log' = IF returned THEN LogReturned(s, messageData) ELSE log
    /\ UNCHANGED <<envVars, redisList, titleVars, durableVars, now, chat, cleanup, restores, contextVars>>

\* the caller has the result of the call, or its exception
AddMessageEnd(a) ==
    /\ appends[a].pc \in {"returned", "threw"}
    /\ appends' = [appends EXCEPT ![a] = IdleAppend]
    /\ UNCHANGED <<envVars, listVars, titleVars, durableVars, now, chat, cleanup, restores, contextVars, last, log>>

\* getSessionHistory without the reverse() of what LRANGE and slice return
getSessionHistoryNoReverse(s, limit, cmdOk) ==
    IF isConnected /\ cmdOk
    THEN Returned("getSessionHistory", s, FALSE, LRange(redisList[s], 0, limit - 1), TRUE)
    ELSE IF ~fallbackStorage.defined THEN Threw("getSessionHistory", s)
    ELSE IF isConnected
    THEN Returned("getSessionHistory", s, FALSE, fallbackStorage.map[s], FALSE)
    ELSE Returned("getSessionHistory", s, FALSE, Slice0(fallbackStorage.map[s], limit), TRUE)

\* getSessionHistory(sessionId, limit): what the call returns in this state
\* when its LRANGE succeeds (cmdOk) or throws
getSessionHistory(s, limit, cmdOk) ==
    IF isConnected /\ cmdOk
    THEN Returned("getSessionHistory", s, FALSE,
                  Reverse(LRange(redisList[s], 0, limit - 1)), TRUE)
    ELSE IF ~fallbackStorage.defined THEN Threw("getSessionHistory", s)
    ELSE IF isConnected
    THEN Returned("getSessionHistory", s, FALSE, fallbackStorage.map[s], FALSE)
    ELSE Returned("getSessionHistory", s, FALSE,
                  Reverse(Slice0(fallbackStorage.map[s], limit)), TRUE)

\* sessionExists(sessionId)
sessionExists(s, cmdOk) ==
    IF isConnected /\ cmdOk
    THEN Returned("sessionExists", s, redisList[s] # <<>>, <<>>, TRUE)
    ELSE IF ~fallbackStorage.defined THEN Threw("sessionExists", s)
    ELSE Returned("sessionExists", s, fallbackStorage.map[s] # <<>>, <<>>, ~isConnected)

\* a clearSession that also deletes the session's rows, as
\* SessionStorageService.deleteSession does
ClearSessionAndRows(s) ==
    /\ \E cmd \in Outcomes({"delThrows"}) :
         /\ redisList' = IF cmd = "ok" THEN [redisList EXCEPT ![s] = <<>>] ELSE redisList
         /\ redisTTL' = IF cmd = "ok" THEN [redisTTL EXCEPT ![s] = NoKey] ELSE redisTTL
         /\ fallbackStorage' = IF cmd # "ok" /\ fallbackStorage.defined
                               THEN [fallbackStorage EXCEPT !.map[s] = <<>>]
                               ELSE fallbackStorage
         /\ last' = IF cmd = "ok" THEN Returned("clearSession", s, TRUE, <<>>, TRUE)
                    ELSE IF ~fallbackStorage.defined THEN Threw("clearSession", s)
                    ELSE Returned("clearSession", s, cmd = "offline", <<>>, cmd = "offline")
         /\ log' = IF cmd = "ok" \/ fallbackStorage.defined
                   THEN [log EXCEPT ![s] = <<>>]
                   ELSE log
    /\ chatMessages' = SelectSeq(chatMessages, LAMBDA r : r.session_id # s)
    /\ UNCHANGED <<envVars, titleVars, pool, transcripts, now>>

\* a clearSession that deletes the keys of every session
ClearSessionEvery(s) ==
    /\ \E cmd \in Outcomes({"delThrows"}) :
         /\ redisList' = IF cmd = "ok" THEN [t \in Sessions |-> <<>>] ELSE redisList
         /\ redisTTL' = IF cmd = "ok" THEN [t \in Sessions |-> NoKey] ELSE redisTTL
         /\ fallbackStorage' = IF cmd # "ok" /\ fallbackStorage.defined
                               THEN [fallbackStorage EXCEPT !.map = [t \in Sessions |-> <<>>]]
                               ELSE fallbackStorage
         /\ last' = IF cmd = "ok" THEN Returned("clearSession", s, TRUE, <<>>, TRUE)
                    ELSE IF ~fallbackStorage.defined THEN Threw("clearSession", s)
                    ELSE Returned("clearSession", s, cmd = "offline", <<>>, cmd = "offline")
         /\ log' = IF cmd = "ok" \/ fallbackStorage.defined
                   THEN [t \in Sessions |-> <<>>]
                   ELSE log
    /\ UNCHANGED <<envVars, titleVars, durableVars, now>>

\* clearSession(sessionId); flag is the `success` of the result
ClearSession(s) ==
    /\ \E cmd \in Outcomes({"delThrows"}) :
         /\ redisList' = IF cmd = "ok" THEN [redisList EXCEPT ![s] = <<>>] ELSE redisList
         /\ redisTTL' = IF cmd = "ok" THEN [redisTTL EXCEPT ![s] = NoKey] ELSE redisTTL
         /\ fallbackStorage' = IF cmd # "ok" /\ fallbackStorage.defined
                               THEN [fallbackStorage EXCEPT !.map[s] = <<>>]
                               ELSE fallbackStorage
         /\ last' = IF cmd = "ok" THEN Returned("clearSession", s, TRUE, <<>>, TRUE)
                    ELSE IF ~fallbackStorage.defined THEN Threw("clearSession", s)
                    ELSE Returned("clearSession", s, cmd = "offline", <<>>, cmd = "offline")
         /\ log' = IF cmd = "ok" \/ fallbackStorage.defined
                   THEN [log EXCEPT ![s] = <<>>]
                   ELSE log
    /\ UNCHANGED <<envVars, titleVars, durableVars, now>>

\* setSessionTitle(sessionId, title): a failing SET is logged and swallowed
SetSessionTitle(s, title) ==
    /\ \E cmd \in Outcomes({"setThrows"}) :
         /\ redisTitle' = IF cmd = "ok" THEN [redisTitle EXCEPT ![s] = title] ELSE redisTitle
         /\ redisTitleTTL' = IF cmd = "ok"
                             THEN [redisTitleTTL EXCEPT ![s] = SESSION_TTL]
                             ELSE redisTitleTTL
         /\ fallbackTitles' = IF cmd = "offline"
                              THEN [fallbackTitles EXCEPT ![s] = title]
                              ELSE fallbackTitles
         /\ last' = Returned("setSessionTitle", s, FALSE, <<>>, cmd # "setThrows")
    /\ UNCHANGED <<envVars, listVars, durableVars, now, log>>

\* the title stored for a session in the store the service is reading:
\* what getSessionTitle finds before it falls back on generateTitleFromId
storedTitle(s) == IF isConnected THEN redisTitle[s] ELSE fallbackTitles[s]

\* a session id as a string of characters
IdChars(s) ==
    CASE s = "s1" -> <<"s", "1">>
      [] s = "s2" -> <<"s", "2">>
      [] OTHER -> <<>>

\* String.prototype.substring(start, end) for 0 <= start <= end
Substring(cs, start, end) == SubSeq(cs, Min(start, Len(cs)) + 1, Min(end, Len(cs)))

\* generateTitleFromId(sessionId): `Chat ${sessionId.substring(5, 12)}`
generateTitleFromId(s) == <<"C", "h", "a", "t", " ">> \o Substring(IdChars(s), 5, 12)

\* getSessionTitle(sessionId): the title the call returns in this state when
\* its GET succeeds (cmdOk) or throws; a title is never the empty string
getSessionTitle(s, cmdOk) ==
    IF isConnected /\ ~cmdOk THEN generateTitleFromId(s)
    ELSE IF storedTitle(s) # NoTitle THEN storedTitle(s)
    ELSE generateTitleFromId(s)

\* one entry of what getAllSessions() returns (title and lastActivity left out)
sessionEntry(s) ==
    [sessionId |-> s,
     messageCount |-> Len(Cached(s)),
     expiresIn |-> IF isConnected /\ redisTTL[s] > 0 THEN redisTTL[s] ELSE NoExpiry]

\* getAllSessions(): the sessions it lists when its commands succeed
listedSessions == {s \in Sessions : Cached(s) # <<>>}

\* getAllSessions() when no other call runs between its commands
getAllSessions == {sessionEntry(s) : s \in listedSessions}

-----------------------------------------------------------------------------
(* SessionStorageService: the durable tier.                                *)

\* saveMessage(sessionId, message, role): one INSERT; flag is the result
SaveMessage(s, text, role) ==
    /\ Len(chatMessages) < MaxRows
    /\ \E queryOk \in BOOLEAN :
         /\ chatMessages' =
                IF pool /\ queryOk
                THEN Append(chatMessages,
                            [id |-> Len(chatMessages) + 1, session_id |-> s,
                             message |-> text, role |-> role, timestamp |-> now])
                ELSE chatMessages
         /\ last' = Returned("saveMessage", s, pool /\ queryOk, <<>>, pool /\ queryOk)
    /\ UNCHANGED <<envVars, listVars, titleVars, pool, transcripts, now, log>>

\* the rows of a session, in insertion order
RowsOf(s) == SelectSeq(chatMessages, LAMBDA r : r.session_id = s)

\* ORDER BY timestamp ASC: every order of the rows in which the timestamps do
\* not decrease; MySQL is free to return rows of equal timestamp in any order
OrderByTimestamp(rows) ==
    LET n == Len(rows)
        perms == {p \in [1..n -> 1..n] : \A i, j \in 1..n : i # j => p[i] # p[j]}
    IN  {[i \in 1..n |-> rows[p[i]]] : p \in
            {q \in perms : \A i, j \in 1..n :
                              i < j => rows[q[i]].timestamp <= rows[q[j]].timestamp}}

\* parseInt(limit) || 50; 0 stands for a limit the caller left out
ParsedLimit(limit) == IF limit = 0 THEN DefaultLimit ELSE limit

\* getSessionHistory(sessionId, limit) of the storage service: the results the
\* SELECT ... WHERE session_id = ? ORDER BY timestamp ASC LIMIT n can produce;
\* a missing pool and a failing query both give []
StorageHistory(s, limit, queryOk) ==
    IF pool /\ queryOk
    THEN {Slice0(rows, ParsedLimit(limit)) : rows \in OrderByTimestamp(RowsOf(s))}
    ELSE {<<>>}

-----------------------------------------------------------------------------
(* SessionService.restoreSessionFromStorage(sessionId, storage, limit)     *)

\* the list under the session key after DEL and the LPUSH of the first k
\* elements of redisMessages
Replayed(redisMessages, k) == Reverse(SubSeq(redisMessages, 1, k))

\* a restore that empties the cache entry before it looks at the durable turns
RestoreSessionFromStorageClearFirst(s, limit) ==
    \E queryOk \in BOOLEAN : \E mysqlHistory \in StorageHistory(s, limit, queryOk) :
      LET n == Len(mysqlHistory)
          reversed == Reverse(mysqlHistory)
          redisMessages ==
              [i \in 1..n |-> Turn(Uuids(s, n)[i], reversed[i].message,
                                   reversed[i].role = "user", NoSources)]
          result(restored, msgs, clean) ==
              [Returned("restore", s, restored, msgs, clean)
                  EXCEPT !.limit = ParsedLimit(limit)]
      IN
      IF n = 0
      THEN /\ last' = result(FALSE, <<>>, pool /\ queryOk)
           /\ redisList' = [redisList EXCEPT ![s] = <<>>]
           /\ redisTTL' = [redisTTL EXCEPT ![s] = NoKey]
           /\ fallbackStorage' = [fallbackStorage EXCEPT !.map[s] = <<>>]
           /\ log' = [log EXCEPT ![s] = <<>>]
           /\ UNCHANGED <<envVars, titleVars, durableVars, now>>
      ELSE
        \* failAt: 0 the DEL throws, k in 1..n the k-th LPUSH throws,
        \* n+1 the EXPIRE throws, n+2 no command of the replay throws;
        \* cmd: the SET of setSessionTitle, reached when none has thrown
        /\ \E failAt \in (IF isConnected THEN 0..(n + 2) ELSE {n + 2}) :
           \E cmd \in (IF failAt = n + 2 THEN Outcomes({"setThrows"}) ELSE {"none"}) :
             LET done == failAt = n + 2
                 pushed == IF failAt = 0 THEN 0 ELSE Min(failAt - 1, n)
                 replaced == (isConnected /\ failAt > 0)
                                \/ (~isConnected /\ fallbackStorage.defined)
                 restored == (isConnected /\ done)
                                \/ (~isConnected /\ fallbackStorage.defined)
             IN
             /\ redisList' = IF isConnected /\ failAt > 0
                             THEN [redisList EXCEPT ![s] = Replayed(redisMessages, pushed)]
                             ELSE redisList
             /\ redisTTL' = IF isConnected /\ failAt > 0
                            THEN [redisTTL EXCEPT ![s] =
                                     IF done THEN SESSION_TTL
                                     ELSE IF pushed > 0 THEN NoExpiry ELSE NoKey]
                            ELSE redisTTL
             /\ redisTitle' = IF isConnected /\ done /\ cmd = "ok"
                              THEN [redisTitle EXCEPT ![s] =
                                       generateTitleFromMessage(redisMessages[1].text)]
                              ELSE redisTitle
             /\ redisTitleTTL' = IF isConnected /\ done /\ cmd = "ok"
                                 THEN [redisTitleTTL EXCEPT ![s] = SESSION_TTL]
                                 ELSE redisTitleTTL
             \* the Map entry is the array redisMessages itself, which the
             \* return statement then reverses in place
             /\ fallbackStorage' = IF ~isConnected /\ fallbackStorage.defined
                                   THEN [fallbackStorage EXCEPT !.map[s] = Reverse(redisMessages)]
                                   ELSE fallbackStorage
             /\ last' = IF restored
                        THEN result(TRUE, Reverse(redisMessages), cmd # "setThrows")
                        ELSE [result(FALSE, <<>>, FALSE) EXCEPT !.error = TRUE]
             /\ log' = IF replaced THEN [log EXCEPT ![s] = <<>>] ELSE log
        /\ UNCHANGED <<envVars, fallbackTitles, durableVars, now>>

\* restoreSessionFromStorage(sessionId, sessionStorageService, limit)
RestoreSessionFromStorage(s, limit) ==
    \E queryOk \in BOOLEAN : \E mysqlHistory \in StorageHistory(s, limit, queryOk) :
      LET n == Len(mysqlHistory)
          reversed == Reverse(mysqlHistory)
          redisMessages ==
              [i \in 1..n |-> Turn(Uuids(s, n)[i], reversed[i].message,
                                   reversed[i].role = "user", NoSources)]
          result(restored, msgs, clean) ==
              [Returned("restore", s, restored, msgs, clean)
                  EXCEPT !.limit = ParsedLimit(limit)]
      IN
      IF n = 0
      THEN /\ last' = result(FALSE, <<>>, pool /\ queryOk)
           /\ UNCHANGED <<envVars, listVars, titleVars, durableVars, now, log>>
      ELSE
        \* failAt: 0 the DEL throws, k in 1..n the k-th LPUSH throws,
        \* n+1 the EXPIRE throws, n+2 no command of the replay throws;
        \* cmd: the SET of setSessionTitle, reached when none has thrown
        /\ \E failAt \in (IF isConnected THEN 0..(n + 2) ELSE {n + 2}) :
           \E cmd \in (IF failAt = n + 2 THEN Outcomes({"setThrows"}) ELSE {"none"}) :
             LET done == failAt = n + 2
                 pushed == IF failAt = 0 THEN 0 ELSE Min(failAt - 1, n)
                 replaced == (isConnected /\ failAt > 0)
                                \/ (~isConnected /\ fallbackStorage.defined)
                 restored == (isConnected /\ done)
                                \/ (~isConnected /\ fallbackStorage.defined)
             IN
             /\ redisList' = IF isConnected /\ failAt > 0
                             THEN [redisList EXCEPT ![s] = Replayed(redisMessages, pushed)]
                             ELSE redisList
             /\ redisTTL' = IF isConnected /\ failAt > 0
                            THEN [redisTTL EXCEPT ![s] =
                                     IF done THEN SESSION_TTL
                                     ELSE IF pushed > 0 THEN NoExpiry ELSE NoKey]
                            ELSE redisTTL
             /\ redisTitle' = IF isConnected /\ done /\ cmd = "ok"
                              THEN [redisTitle EXCEPT ![s] =
                                       generateTitleFromMessage(redisMessages[1].text)]
                              ELSE redisTitle
             /\ redisTitleTTL' = IF isConnected /\ done /\ cmd = "ok"
                                 THEN [redisTitleTTL EXCEPT ![s] = SESSION_TTL]
                                 ELSE redisTitleTTL
             \* the Map entry is the array redisMessages itself, which the
             \* return statement then reverses in place
             /\ fallbackStorage' = IF ~isConnected /\ fallbackStorage.defined
                                   THEN [fallbackStorage EXCEPT !.map[s] = Reverse(redisMessages)]
                                   ELSE fallbackStorage
             /\ last' = IF restored
                        THEN result(TRUE, Reverse(redisMessages), cmd # "setThrows")
                        ELSE [result(FALSE, <<>>, FALSE) EXCEPT !.error = TRUE]
             /\ log' = IF replaced THEN [log EXCEPT ![s] = <<>>] ELSE log
        /\ UNCHANGED <<envVars, fallbackTitles, durableVars, now>>

-----------------------------------------------------------------------------
(* restoreSessionFromStorage taken await by await: the query of the        *)
(* durable store, DEL, one LPUSH per element of redisMessages, EXPIRE,     *)
(* setSessionTitle.  Steps of different calls interleave.  A command that  *)
(* throws sends the call through the catch block.                          *)

RestoreResult(c, restored, msgs, clean) ==
    [Returned("restore", restores[c].sid, restored, msgs, clean)
        EXCEPT !.limit = ParsedLimit(restores[c].limit)]

\* the catch block: { restored: false, messages: [], error }
RestoreCaught(c) ==
    /\ restores' = [restores EXCEPT ![c].pc = "returned", ![c].flag = FALSE]
    /\ last' = [RestoreResult(c, FALSE, <<>>, FALSE) EXCEPT !.error = TRUE]

\* mysqlHistory = await sessionStorage.getSessionHistory(sessionId, limit);
\* the return for an empty history, the map to redisMessages and the
\* fallback branch, which has no await
RestoreStart(c, s, limit) ==
    /\ restores[c].pc = "idle"
    /\ \E queryOk \in BOOLEAN : \E mysqlHistory \in StorageHistory(s, limit, queryOk) :
         LET n == Len(mysqlHistory)
             reversed == Reverse(mysqlHistory)
             redisMessages ==
                 [i \in 1..n |-> Turn(Uuids(s, n)[i], reversed[i].message,
                                      reversed[i].role = "user", NoSources)]
             call == [pc |-> "del", sid |-> s, msgs |-> redisMessages, k |-> 0,
                      limit |-> limit, flag |-> FALSE]
             result(restored, msgs, clean) ==
                 [Returned("restore", s, restored, msgs, clean)
                     EXCEPT !.limit = ParsedLimit(limit)]
             set == n > 0 /\ ~isConnected /\ fallbackStorage.defined
         IN  /\ restores' =
                    [restores EXCEPT ![c] =
                        IF n > 0 /\ isConnected THEN call
                        ELSE [call EXCEPT !.pc = "returned", !.flag = set]]
             /\ fallbackStorage' = IF set
                                   THEN [fallbackStorage EXCEPT !.map[s] = Reverse(redisMessages)]
                                   ELSE fallbackStorage
             /\ log' = IF set THEN [log EXCEPT ![s] = <<>>] ELSE log
             /\ last' = IF n = 0 THEN result(FALSE, <<>>, pool /\ queryOk)
                        ELSE IF isConnected THEN last
                        ELSE IF set THEN result(TRUE, Reverse(redisMessages), TRUE)
                        ELSE [result(FALSE, <<>>, FALSE) EXCEPT !.error = TRUE]
    /\ UNCHANGED <<envVars, redisList, redisTTL, titleVars, durableVars, now,
                   chat, cleanup, appends, contextVars>>

\* await this.client.del(`session:${sessionId}`)
RestoreDel(c) ==
    /\ restores[c].pc = "del"
    /\ LET s == restores[c].sid
       IN  \/ /\ redisList' = [redisList EXCEPT ![s] = <<>>]
              /\ redisTTL' = [redisTTL EXCEPT ![s] = NoKey]
              /\ log' = [log EXCEPT ![s] = <<>>]
              /\ restores' = [restores EXCEPT ![c].pc = "push"]
              /\ UNCHANGED last
           \/ /\ RestoreCaught(c)
              /\ UNCHANGED <<redisList, redisTTL, log>>
    /\ UNCHANGED <<envVars, fallbackStorage, titleVars, durableVars, now,
                   chat, cleanup, appends, contextVars>>

\* await this.client.lPush(`session:${sessionId}`, JSON.stringify(message))
\* for the next element of redisMessages
RestorePush(c) ==
    /\ restores[c].pc = "push"
    /\ LET s == restores[c].sid
           k == restores[c].k + 1
       IN  \/ /\ redisList' = [redisList EXCEPT ![s] = <<restores[c].msgs[k]>> \o @]
              /\ redisTTL' = [redisTTL EXCEPT ![s] = IF @ = NoKey THEN NoExpiry ELSE @]
              /\ restores' = [restores EXCEPT ![c].k = k,
                                               ![c].pc = IF k = Len(restores[c].msgs)
                                                         THEN "expire" ELSE "push"]
              /\ UNCHANGED last
           \/ /\ RestoreCaught(c)
              /\ UNCHANGED <<redisList, redisTTL>>
    /\ UNCHANGED <<envVars, fallbackStorage, titleVars, durableVars, now,
                   chat, cleanup, appends, contextVars, log>>

\* await this.client.expire(`session:${sessionId}`, this.SESSION_TTL): on a
\* key that is gone it sets nothing
RestoreExpire(c) ==
    /\ restores[c].pc = "expire"
    /\ LET s == restores[c].sid
       IN  \/ /\ redisTTL' = IF redisList[s] # <<>>
                              THEN [redisTTL EXCEPT ![s] = SESSION_TTL]
                              ELSE redisTTL
              /\ restores' = [restores EXCEPT ![c].pc = "title"]
              /\ UNCHANGED last
           \/ /\ RestoreCaught(c)
              /\ UNCHANGED redisTTL
    /\ UNCHANGED <<envVars, fallbackStorage, redisList, titleVars, durableVars, now,
                   chat, cleanup, appends, contextVars, log>>

\* await this.setSessionTitle(sessionId, title) with the title of
\* redisMessages[0], then the return; setSessionTitle swallows a failing SET
RestoreTitle(c) ==
    /\ restores[c].pc = "title"
    /\ \E cmd \in Outcomes({"setThrows"}) :
         LET s == restores[c].sid
             title == generateTitleFromMessage(restores[c].msgs[1].text)
         IN  /\ redisTitle' = IF cmd = "ok" THEN [redisTitle EXCEPT ![s] = title]
                              ELSE redisTitle
             /\ redisTitleTTL' = IF cmd = "ok"
                                 THEN [redisTitleTTL EXCEPT ![s] = SESSION_TTL]
                                 ELSE redisTitleTTL
             /\ fallbackTitles' = IF cmd = "offline"
                                  THEN [fallbackTitles EXCEPT ![s] = title]
                                  ELSE fallbackTitles
             /\ restores' = [restores EXCEPT ![c].pc = "returned", ![c].flag = TRUE]
             /\ last' = RestoreResult(c, TRUE, Reverse(restores[c].msgs), cmd # "setThrows")
    /\ UNCHANGED <<envVars, listVars, durableVars, now,
                   chat, cleanup, appends, contextVars, log>>

\* the caller has the result of the call
RestoreEnd(c) ==
    /\ restores[c].pc = "returned"
    /\ restores' = [restores EXCEPT ![c] = IdleRestore]
    /\ UNCHANGED <<envVars, listVars, titleVars, durableVars, now,
                   chat, cleanup, appends, contextVars, last, log>>

-----------------------------------------------------------------------------
(* TranscriptService.saveTranscript(sessionId, messages, title): a SELECT  *)
(* of the session's latest transcript, then an UPDATE of its title and a   *)
(* DELETE of its messages, or the INSERT of a new transcript; then one     *)
(* INSERT per message.  No transaction: a statement that throws leaves the *)
(* statements before it in effect.                                         *)

TranscriptsOf(s) == {i \in DOMAIN transcripts : transcripts[i].session_id = s}

\* `Chat Session ${new Date().toISOString().split('T')[0]}`: the date is one
\* symbol, the number of the day
DefaultTranscriptTitle ==
    <<"C", "h", "a", "t", " ", "S", "e", "s", "s", "i", "o", "n", " ">>
        \o <<ToString(now \div (SESSION_TTL \div TickStep))>>

\* the statements after the SELECT
transcriptStatements(s, messages, title) ==
    (IF TranscriptsOf(s) # {}
     THEN (IF title # NoTitle THEN <<"update">> ELSE <<>>) \o <<"delete">>
     ELSE <<"insert">>) \o [i \in 1..Len(messages) |-> "message"]

\* transcriptId: the id of the session's latest transcript, or a fresh one
\* (randomUUID(); the number of the new row stands for it)
transcriptIdFor(s) ==
    IF TranscriptsOf(s) # {} THEN SetMax(TranscriptsOf(s)) ELSE Len(transcripts) + 1

\* the rows INSERT INTO messages (transcript_id, role, content, metadata) adds:
\* the timestamp column takes its default, CURRENT_TIMESTAMP
messageRows(messages) ==
    [i \in DOMAIN messages |->
        [role |-> messages[i].role, content |-> messages[i].content, timestamp |-> now]]

\* the tables after the first k statements
savedTranscripts(s, messages, title, k) ==
    LET head == Len(transcriptStatements(s, messages, title)) - Len(messages)
        inserted == IF k > head THEN SubSeq(messageRows(messages), 1, k - head) ELSE <<>>
    IN  IF k = 0 THEN transcripts
        ELSE IF TranscriptsOf(s) # {}
        THEN [transcripts EXCEPT ![transcriptIdFor(s)] =
                 [@ EXCEPT !.title = IF title # NoTitle THEN title ELSE @,
                           !.messages = IF k >= head THEN inserted ELSE @]]
        ELSE Append(transcripts,
                    [id |-> transcriptIdFor(s), session_id |-> s,
                     title |-> IF title # NoTitle THEN title ELSE DefaultTranscriptTitle,
                     messages |-> inserted])

\* saveTranscript(sessionId, messages, title); msgs: the messages supplied
SaveTranscript(s, messages, title) ==
    /\ IF ~pool
       THEN /\ last' = Threw("saveTranscript", s)
            /\ UNCHANGED transcripts
       ELSE \E k \in 0..Len(transcriptStatements(s, messages, title)) :
              /\ transcripts' = savedTranscripts(s, messages, title, k)
              /\ last' = IF k = Len(transcriptStatements(s, messages, title))
                         THEN [Returned("saveTranscript", s, TRUE, messages, TRUE)
                                  EXCEPT !.id = transcriptIdFor(s)]
                         ELSE Threw("saveTranscript", s)
    /\ UNCHANGED <<envVars, listVars, titleVars, pool, chatMessages, now, log>>

\* text LIKE '%query%' for a query without wildcard characters whose letters
\* have the case of the text's
Like(text, query) ==
    \E i \in 0..(Len(text) - Len(query)) : SubSeq(text, i + 1, i + Len(query)) = query

\* searchTranscripts(query): the ids of the rows of
\* SELECT DISTINCT t.* FROM transcripts t JOIN messages m ON t.id = m.transcript_id
\* WHERE t.title LIKE ? OR m.content LIKE ?; the inner join pairs a
\* transcript with each of its messages
searchTranscripts(query) ==
    {t \in DOMAIN transcripts :
        \E m \in DOMAIN transcripts[t].messages :
            \/ Like(transcripts[t].title, query)
            \/ Like(Chars(transcripts[t].messages[m].content), query)}

\* getTranscript(transcriptId): the results the two SELECTs can produce when
\* they succeed; the messages come ORDER BY timestamp ASC
getTranscript(transcriptId) ==
    IF transcriptId \notin DOMAIN transcripts THEN {[found |-> FALSE, messages |-> <<>>]}
    ELSE {[found |-> TRUE,
           messages |-> [i \in DOMAIN rows |-> [role |-> rows[i].role,
                                                content |-> rows[i].content]]] :
             rows \in OrderByTimestamp(transcripts[transcriptId].messages)}

-----------------------------------------------------------------------------
(* ChatService: the conversation context it keeps per session id.         *)

\* session.history.length > 10, slice(-10)
HistoryCap == 10

\* the last n elements of an array
Last(seq, n) == SubSeq(seq, Len(seq) - n + 1, Len(seq))

\* an addToHistory that keeps the first entries instead of the last
addToHistoryKeepFirst(history, role, content) ==
    LET pushed == Append(history, [role |-> role, content |-> content])
    IN  IF Len(pushed) > HistoryCap THEN SubSeq(pushed, 1, HistoryCap) ELSE pushed

\* addToHistory(sessionId, role, content): the history after the push
addToHistory(history, role, content) ==
    LET pushed == Append(history, [role |-> role, content |-> content])
    IN  IF Len(pushed) > HistoryCap THEN Last(pushed, HistoryCap) ELSE pushed

\* addToHistory as a call: getSession creates the entry of the session
AddToHistory(s, role, content) ==
    /\ Len(appended[s]) < MaxAppended
    /\ sessions' = [sessions EXCEPT ![s] =
                        [defined |-> TRUE,
                         history |-> addToHistory(sessions[s].history, role, content)]]
    /\ appended' = [appended EXCEPT ![s] = Append(@, [role |-> role, content |-> content])]

\* processMessage(message, sessionId): getSession, the search and the
\* language model's response, then addToHistory of the message and of the
\* response; an error of the search or of the model is caught before the
\* two addToHistory calls
ProcessMessage(s, message, response, answered) ==
    /\ sessions' = [sessions EXCEPT ![s] =
                        [defined |-> TRUE,
                         history |->
                            IF answered
                            THEN addToHistory(addToHistory(sessions[s].history, "user", message),
                                              "assistant", response)
                            ELSE sessions[s].history]]
    /\ appended' = IF answered
                   THEN [appended EXCEPT ![s] =
                            @ \o <<[role |-> "user", content |-> message],
                                   [role |-> "assistant", content |-> response]>>]
                   ELSE appended

-----------------------------------------------------------------------------
(* The chat handlers: POST /api/chat and the socket 'send-message' event   *)
(* run the same steps.  Each await is a step; steps of different requests  *)
(* interleave.                                                             *)

Responded(r, code) == [chat EXCEPT ![r].pc = "done", ![r].http = code]

\* a request with a message and a sessionId arrives
ChatRequest(r, s, text) ==
    /\ chat[r].pc = "idle"
    /\ Len(appended[s]) < 2 * MaxChats
    /\ chat' = [chat EXCEPT ![r] = [pc |-> "history", sid |-> s, text |-> text,
                                    isFirstMessage |-> FALSE, http |-> 0]]
    /\ UNCHANGED <<envVars, listVars, titleVars, durableVars, now, cleanup, appends, restores, contextVars, last, log>>

\* isFirstMessage = (await getSessionHistory(sessionId, 1)).length === 0
ChatIsFirstMessage(r) ==
    /\ chat[r].pc = "history"
    /\ \E cmdOk \in BOOLEAN :
         LET history == getSessionHistory(chat[r].sid, 1, cmdOk)
         IN  /\ last' = history
             /\ chat' = IF history.status = "threw"
                        THEN Responded(r, 500)
                        ELSE [chat EXCEPT ![r].pc = "user",
                                          ![r].isFirstMessage = history.msgs = <<>>]
    /\ UNCHANGED <<envVars, listVars, titleVars, durableVars, now, cleanup, appends, restores, contextVars, log>>

\* await addMessage(sessionId, { text: message }, true)
ChatAddUser(r) ==
    /\ chat[r].pc = "user"
    /\ AddMessage(chat[r].sid, chat[r].text, TRUE, NoSources)
    /\ chat' = IF last'.status = "threw"
               THEN Responded(r, 500)
               ELSE [chat EXCEPT ![r].pc = IF chat[r].isFirstMessage THEN "title" ELSE "bot"]
    /\ UNCHANGED <<cleanup, appends, restores, contextVars>>

\* await setSessionTitle(sessionId, generateTitleFromMessage({ text: message }))
ChatSetTitle(r) ==
    /\ chat[r].pc = "title"
    /\ SetSessionTitle(chat[r].sid, generateTitleFromMessage(chat[r].text))
    /\ chat' = [chat EXCEPT ![r].pc = "bot"]
    /\ UNCHANGED <<cleanup, appends, restores, contextVars>>

\* processMessage (which catches its errors and then answers with an
\* apology, one more text of the bot), addMessage of the response,
\* then the auto-save: saveSessionTranscript finds no conversation history
\* and returns null, so nothing is stored; then the response is sent
ChatAddBot(r) ==
    /\ chat[r].pc = "bot"
    /\ \E response \in BotTexts, answered \in BOOLEAN :
         /\ ProcessMessage(chat[r].sid, chat[r].text, response, answered)
         /\ AddMessage(chat[r].sid, response, FALSE, SomeSources)
    /\ chat' = Responded(r, IF last'.status = "threw" THEN 500 ELSE 200)
    /\ UNCHANGED <<cleanup, appends, restores>>

\* the handler has returned
ChatEnd(r) ==
    /\ chat[r].pc = "done"
    /\ chat' = [chat EXCEPT ![r] = IdleRequest]
    /\ UNCHANGED <<envVars, listVars, titleVars, durableVars, now, cleanup, appends, restores, contextVars, last, log>>

-----------------------------------------------------------------------------
(* GET /api/session/:sessionId/history: sessionExists, then                *)
(* getSessionHistory with the limit of the query string.                   *)

HistoryRequest(r, s) ==
    /\ chat[r].pc = "idle"
    /\ chat' = [chat EXCEPT ![r] = [pc |-> "exists", sid |-> s, text |-> "",
                                    isFirstMessage |-> FALSE, http |-> 0]]
    /\ UNCHANGED <<envVars, listVars, titleVars, durableVars, now, cleanup, appends, restores, contextVars, last, log>>

\* exists = await sessionExists(sessionId); 404 when it is false
HistoryExists(r) ==
    /\ chat[r].pc = "exists"
    /\ \E cmdOk \in BOOLEAN :
         LET exists == sessionExists(chat[r].sid, cmdOk)
         IN  /\ last' = exists
             /\ chat' = IF exists.status = "threw" THEN Responded(r, 500)
                        ELSE IF ~exists.flag THEN Responded(r, 404)
                        ELSE [chat EXCEPT ![r].pc = "read"]
    /\ UNCHANGED <<envVars, listVars, titleVars, durableVars, now, cleanup, appends, restores, contextVars, log>>

\* history = await getSessionHistory(sessionId, parseInt(limit)); the limit
\* is the request's, 50 when the query string has none
HistoryRead(r) ==
    /\ chat[r].pc = "read"
    /\ \E cmdOk \in BOOLEAN, limit \in (0..MaxLimit) \cup {DefaultLimit} :
         LET history == getSessionHistory(chat[r].sid, limit, cmdOk)
         IN  /\ last' = [history EXCEPT !.limit = limit]
             /\ chat' = Responded(r, IF history.status = "threw" THEN 500 ELSE 200)
    /\ UNCHANGED <<envVars, listVars, titleVars, durableVars, now, cleanup, appends, restores, contextVars, log>>

-----------------------------------------------------------------------------
(* ChatService.saveSessionTranscript(sessionId, title): conversationHistory *)
(* is the empty array the method has just created, so the method returns   *)
(* null before it reaches saveTranscript.  flag: a transcriptId came back. *)

saveSessionTranscript(s, title) == Returned("saveSessionTranscript", s, FALSE, <<>>, TRUE)

\* POST /api/transcripts/save: answers 400 when no transcriptId came back
TranscriptSaveRequest ==
    /\ \E s \in Sessions, title \in {NoTitle, NewChat} :
         last' = saveSessionTranscript(s, title)
    /\ UNCHANGED <<envVars, listVars, titleVars, durableVars, procVars, now, log>>

-----------------------------------------------------------------------------
(* cleanupEmptySessions(): getAllSessions() (KEYS, then LLEN, TTL, GET and *)
(* LRANGE per key), then clearSession for each entry whose messageCount is *)
(* 0.  Each await is a step.                                               *)

Orders(S) ==
    {q \in [1..Cardinality(S) -> S] : \A i, j \in 1..Cardinality(S) : i # j => q[i] # q[j]}

CleanupResult(clean) == Returned("cleanupEmptySessions", "", FALSE, <<>>, clean)

\* getAllSessions: KEYS 'session:*'.  In fallback mode the listing has no
\* await between reading a Map entry and its length, and no entry is empty.
CleanupKeys ==
    /\ cleanup.pc = "idle"
    /\ \E cmdOk \in BOOLEAN, keys \in Orders({s \in Sessions : redisList[s] # <<>>}) :
         IF isConnected /\ cmdOk /\ keys # <<>>
         THEN /\ cleanup' = [pc |-> "scan", keys |-> keys, sessions |-> <<>>]
              /\ UNCHANGED last
         ELSE /\ cleanup' = IdleCleanup
              /\ last' = CleanupResult(isConnected /\ cmdOk)
    /\ UNCHANGED <<envVars, listVars, titleVars, durableVars, now, chat, appends, restores, contextVars, log>>

\* getAllSessions: LLEN, TTL, GET title and LRANGE for the next key; a
\* command that throws makes getAllSessions return []
CleanupScan ==
    /\ cleanup.pc = "scan"
    /\ \E cmdOk \in BOOLEAN :
         LET key == Head(cleanup.keys)
             entry == [sessionId |-> key, messageCount |-> Len(redisList[key])]
         IN  IF ~cmdOk
             THEN /\ cleanup' = IdleCleanup
                  /\ last' = CleanupResult(FALSE)
             ELSE /\ cleanup' = [pc |-> IF Tail(cleanup.keys) = <<>> THEN "sweep" ELSE "scan",
                                 keys |-> Tail(cleanup.keys),
                                 sessions |-> Append(cleanup.sessions, entry)]
                  /\ UNCHANGED last
    /\ UNCHANGED <<envVars, listVars, titleVars, durableVars, now, chat, appends, restores, contextVars, log>>

\* the loop over the listing: clearSession when messageCount === 0
CleanupSweep ==
    /\ cleanup.pc = "sweep"
    /\ IF Head(cleanup.sessions).messageCount = 0
       THEN ClearSession(Head(cleanup.sessions).sessionId)
       ELSE UNCHANGED <<envVars, listVars, titleVars, durableVars, now, last, log>>
    /\ cleanup' = IF Tail(cleanup.sessions) = <<>>
                  THEN IdleCleanup
                  ELSE [cleanup EXCEPT !.sessions = Tail(cleanup.sessions)]
    /\ UNCHANGED <<chat, appends, restores, contextVars>>

-----------------------------------------------------------------------------
(* Callers of the methods.                                                 *)

AddUserMessage ==
    \E s \in Sessions :
        AddMessage(s, "hi", TRUE, NoSources) /\ UNCHANGED procVars

AddBotMessage ==
    \E s \in Sessions, t \in BotTexts :
        AddMessage(s, t, FALSE, SomeSources) /\ UNCHANGED procVars

\* DELETE /api/session/:sessionId
DeleteSession == \E s \in Sessions : ClearSession(s) /\ UNCHANGED procVars

SaveUserMessage ==
    \E s \in Sessions : SaveMessage(s, "any news?", "user") /\ UNCHANGED procVars

SaveBotMessage ==
    \E s \in Sessions : SaveMessage(s, "markets fell.", "bot") /\ UNCHANGED procVars

\* restores of one session, with the limit left out or given
Restore ==
    \E s \in ChatSessions, limit \in 0..MaxLimit :
        RestoreSessionFromStorage(s, limit) /\ UNCHANGED procVars

\* direct calls of ChatService.addToHistory and ChatService.processMessage
AddToHistoryCall ==
    /\ \E s \in ChatSessions, role \in {"user", "assistant"} : AddToHistory(s, role, "hi")
    /\ UNCHANGED <<envVars, listVars, titleVars, durableVars, now,
                   chat, cleanup, appends, restores, last, log>>

ProcessMessageCall ==
    /\ \E s \in ChatSessions, response \in BotTexts, answered \in BOOLEAN :
         /\ Len(appended[s]) + 2 <= MaxAppended
         /\ ProcessMessage(s, "any news?", response, answered)
    /\ UNCHANGED <<envVars, listVars, titleVars, durableVars, now,
                   chat, cleanup, appends, restores, last, log>>

\* the durable turns and the restores of the chat session
SaveChatMessage ==
    \E s \in ChatSessions : SaveMessage(s, "any news?", "user") /\ UNCHANGED procVars

RestoreChat ==
    \E s \in ChatSessions : RestoreSessionFromStorage(s, 0) /\ UNCHANGED procVars

\* a call of setSessionTitle with the title of a first message
SetTitle ==
    \E s \in Sessions : SetSessionTitle(s, NewChat) /\ UNCHANGED procVars

\* the restore with the limit left to its default
RestoreDefault ==
    \E s \in Sessions : RestoreSessionFromStorage(s, 0) /\ UNCHANGED procVars

\* a direct call of TranscriptService.saveTranscript with one user turn
SaveTranscriptCall ==
    \E s \in TranscriptSessions :
        SaveTranscript(s, <<[role |-> "user", content |-> "any news?"]>>, NoTitle)
            /\ UNCHANGED procVars

-----------------------------------------------------------------------------
(* Specifications.  Spec: the cache tier under appends, clears, expiry and *)
(* connection events.  SpecRestore: the durable tier and the restore.      *)
(* SpecChat: concurrent chat requests.  SpecCleanup: a cleanup run amid    *)
(* appends, clears and expiry.  SpecAppend: overlapping addMessage calls.  *)
(* SpecTranscript: the transcript tables.  SpecRoutes: the history route.  *)
(* SpecSession: one chat request at a time with restores, transcript saves *)
(* and expiry.  SpecSessions: the cache operations on two sessions.        *)
(* SpecReplay: overlapping restores.  SpecContext: ChatService's           *)
(* conversation context.                                                   *)

Next ==
    \/ ConnectEvent
    \/ ErrorEvent
    \/ ConnectRejected
    \/ Tick
    \/ AddUserMessage
    \/ AddBotMessage
    \/ DeleteSession

Spec == Init /\ [][Next]_vars

NextRestore ==
    \/ ConnectEvent
    \/ ConnectRejected
    \/ Tick
    \/ SaveUserMessage
    \/ SaveBotMessage
    \/ Restore
    \/ DeleteSession

SpecRestore == InitStorage /\ [][NextRestore]_vars

NextDurable ==
    \/ ConnectEvent
    \/ ConnectRejected
    \/ SaveUserMessage
    \/ SaveTranscriptCall
    \/ RestoreDefault
    \/ DeleteSession

SpecDurable == InitStorage /\ [][NextDurable]_vars

NextChat ==
    \/ ConnectEvent
    \/ ConnectRejected
    \/ \E r \in Requests, s \in ChatSessions, t \in UserTexts : ChatRequest(r, s, t)
    \/ \E r \in Requests : ChatIsFirstMessage(r)
    \/ \E r \in Requests : ChatAddUser(r)
    \/ \E r \in Requests : ChatSetTitle(r)
    \/ \E r \in Requests : ChatAddBot(r)
    \/ \E r \in Requests : ChatEnd(r)
    \/ DeleteSession

SpecChat == Init /\ [][NextChat]_vars

NextCleanup ==
    \/ ConnectEvent
    \/ ConnectRejected
    \/ Tick
    \/ AddUserMessage
    \/ DeleteSession
    \/ CleanupKeys
    \/ CleanupScan
    \/ CleanupSweep

SpecCleanup == Init /\ [][NextCleanup]_vars

\* overlapping addMessage calls amid connection events
NextAppend ==
    \/ ConnectEvent
    \/ ErrorEvent
    \/ ConnectRejected
    \/ \E a \in AppendCalls, s \in Sessions : AddMessageStart(a, s, "hi", TRUE, NoSources)
    \/ \E a \in AppendCalls : AddMessageExpire(a)
    \/ \E a \in AppendCalls : AddMessageEnd(a)

SpecAppend == Init /\ [][NextAppend]_vars

\* the turn sets the callers of saveTranscript supply
TurnsA == <<[role |-> "user", content |-> "hi"]>>

TurnsB == <<[role |-> "user", content |-> "any news?"],
           [role |-> "assistant", content |-> "markets fell."]>>

TurnSets == {TurnsA, TurnsB}

\* a call of saveTranscript(sessionId, turns, title)
SaveTurns ==
    \E s \in TranscriptSessions, turns \in TurnSets, title \in {NoTitle, NewChat} :
        SaveTranscript(s, turns, title) /\ UNCHANGED procVars

\* the transcript tables under saves, the passing of time and connection events
NextTranscript ==
    \/ ConnectEvent
    \/ ConnectRejected
    \/ Tick
    \/ SaveTurns

SpecTranscript == InitStorage /\ [][NextTranscript]_vars

\* the requests that read a history; the others are chat requests
Readers == {"r2"}

\* the history route amid appends, clears, durable writes and connection events
NextRoutes ==
    \/ ConnectEvent
    \/ ErrorEvent
    \/ ConnectRejected
    \/ AddUserMessage
    \/ SaveUserMessage
    \/ DeleteSession
    \/ \E r \in Readers, s \in Sessions : HistoryRequest(r, s)
    \/ \E r \in Readers : HistoryExists(r)
    \/ \E r \in Readers : HistoryRead(r)
    \/ \E r \in Readers : ChatEnd(r)

SpecRoutes == Init /\ [][NextRoutes]_vars

\* one chat request at a time, with restores, clears, transcript saves and
\* the passing of time
NextSession ==
    \/ ConnectEvent
    \/ ConnectRejected
    \/ Tick
    \/ \E r \in Requests \ Readers, s \in ChatSessions, t \in UserTexts : ChatRequest(r, s, t)
    \/ \E r \in Requests \ Readers : ChatIsFirstMessage(r)
    \/ \E r \in Requests \ Readers : ChatAddUser(r)
    \/ \E r \in Requests \ Readers : ChatSetTitle(r)
    \/ \E r \in Requests \ Readers : ChatAddBot(r)
    \/ \E r \in Requests \ Readers : ChatEnd(r)
    \/ DeleteSession
    \/ RestoreDefault
    \/ TranscriptSaveRequest

SpecSession == Init /\ [][NextSession]_vars

\* the four operations of the cache on two sessions, one of which has
\* durable turns to restore
NextSessions ==
    \/ ConnectEvent
    \/ ConnectRejected
    \/ AddUserMessage
    \/ DeleteSession
    \/ SetTitle
    \/ SaveChatMessage
    \/ RestoreChat

SpecSessions == Init /\ [][NextSessions]_vars

\* overlapping restores of the chat session, of its first durable turn
NextReplay ==
    \/ ConnectEvent
    \/ ConnectRejected
    \/ SaveChatMessage
    \/ \E c \in RestoreCalls, s \in ChatSessions : RestoreStart(c, s, 1)
    \/ \E c \in RestoreCalls : RestoreDel(c)
    \/ \E c \in RestoreCalls : RestorePush(c)
    \/ \E c \in RestoreCalls : RestoreExpire(c)
    \/ \E c \in RestoreCalls : RestoreTitle(c)
    \/ \E c \in RestoreCalls : RestoreEnd(c)

SpecReplay == InitStorage /\ [][NextReplay]_vars

\* the conversation context of ChatService under direct calls
NextContext ==
    \/ AddToHistoryCall
    \/ ProcessMessageCall

SpecContext == Init /\ [][NextContext]_vars

-----------------------------------------------------------------------------
(* Properties of the cache tier (Spec).                                    *)

\* the entries at the end of a session's log whose addMessage calls all returned
ReturnedSuffix(entries) ==
    LET thrown == {i \in DOMAIN entries : ~entries[i].returned}
    IN  IF thrown = {} THEN entries
        ELSE SubSeq(entries, SetMax(thrown) + 1, Len(entries))

LastN(seq, n) == SubSeq(seq, Len(seq) - n + 1, Len(seq))

Elements(seq) == {seq[i] : i \in DOMAIN seq}

(* C1: after N >= 1 addMessage calls on a session that each returned, a    *)
(* getSessionHistory(S, N) that returns gives exactly the turns of those N *)
(* calls, oldest first, in the order the calls were made.                  *)
HistoryIsAppendOrder ==
    \A s \in Sessions, cmdOk \in BOOLEAN :
        LET made == TurnsOf(ReturnedSuffix(log[s]))
        IN  \A N \in 1..Len(made) :
                LET history == getSessionHistory(s, N, cmdOk)
                IN  history.status = "ok" => history.msgs = LastN(made, N)

\* two calls in a row returned, a user turn then a bot turn, and the
\* history of the two is read back
HistoryOfTwoTurns ==
    \E s \in Sessions :
        LET made == TurnsOf(ReturnedSuffix(log[s]))
        IN  /\ Len(made) >= 2
            /\ made[Len(made) - 1].isUser /\ ~made[Len(made)].isUser
            /\ getSessionHistory(s, 2, TRUE).status = "ok"
            /\ Len(getSessionHistory(s, 2, TRUE).msgs) = 2

(* C5: read-after-write.  Every turn whose addMessage returned is in what  *)
(* getSessionHistory(S, limit) returns, for a limit above the number of    *)
(* turns, until the session is cleared or expires, whatever connect and    *)
(* error events and command failures have occurred.                        *)
ReadAfterWrite ==
    \A s \in Sessions, cmdOk \in BOOLEAN :
        \A i \in DOMAIN log[s] :
            log[s][i].returned =>
                LET history == getSessionHistory(s, MaxLen + 1, cmdOk)
                IN  history.status = "ok" /\ log[s][i].turn \in Elements(history.msgs)

(* C9 as amended: immediately after an addMessage(S, ...) that returns     *)
(* while the service is connected to redis, getAllSessions lists S with    *)
(* expiresIn = 86400, whatever the TTL was before the call.                *)
TTLRefreshedWhenConnected ==
    (last.op = "addMessage" /\ last.status = "ok" /\ isConnected) =>
        /\ last.sid \in listedSessions
        /\ sessionEntry(last.sid).expiresIn = SESSION_TTL

\* a second turn has just been appended, after time has passed, to a session
\* whose key is in redis
SecondTurnAfterTick ==
    /\ last.op = "addMessage" /\ last.status = "ok" /\ isConnected
    /\ now >= 1
    /\ Len(redisList[last.sid]) >= 2

(* C9 as stated: immediately after every addMessage(S, ...) that returns,  *)
(* getAllSessions reports expiresIn = 86400 for S.                         *)
TTLRefreshed ==
    (last.op = "addMessage" /\ last.status = "ok") =>
        sessionEntry(last.sid).expiresIn = SESSION_TTL

(* C14: in every reachable state of the cache tier (connected or not,      *)
(* fallbackStorage created or not, a redis command failing or not) no      *)
(* addMessage, getSessionHistory, sessionExists or clearSession throws.    *)
CacheTierNeverThrows ==
    /\ last.op \in {"addMessage", "clearSession"} => last.status = "ok"
    /\ \A s \in Sessions, cmdOk \in BOOLEAN :
          /\ getSessionHistory(s, DefaultLimit, cmdOk).status = "ok"
          /\ sessionExists(s, cmdOk).status = "ok"

(* C16: for a session with k cached turns and a limit >= 0, a               *)
(* getSessionHistory(S, limit) that returns gives min(k, limit) turns, the *)
(* most recent ones, oldest first, whichever path the call takes.          *)
HistoryIsLastLimit ==
    \A s \in Sessions, cmdOk \in BOOLEAN, limit \in 0..(MaxLen + 1) :
        LET history == getSessionHistory(s, limit, cmdOk)
            chronological == Reverse(Cached(s))
        IN  history.status = "ok" =>
                history.msgs = LastN(chronological, Min(Len(chronological), limit))

-----------------------------------------------------------------------------
(* Properties of overlapping appends (SpecAppend).                         *)

\* the calls of a pair have both returned, on the same session
BothReturned(a, b) ==
    /\ a # b
    /\ appends[a].pc = "returned" /\ appends[b].pc = "returned"
    /\ appends[a].sid = appends[b].sid

(* C17: when two addMessage calls on the same session have both returned,  *)
(* whether or not they overlapped, both turns are in the session's cached  *)
(* list, the redis list or the fallback array: neither append has          *)
(* overwritten or dropped the other.                                       *)
ConcurrentAppendsKeepBoth ==
    \A a, b \in AppendCalls :
        BothReturned(a, b) =>
            \E list \in {redisList[appends[a].sid], fallbackStorage.map[appends[a].sid]} :
                {appends[a].turn, appends[b].turn} \subseteq Elements(list)

\* two calls on one session that overlapped have both returned, with redis
\* connected
OverlappingAppendsReturned ==
    \E a, b \in AppendCalls :
        /\ BothReturned(a, b)
        /\ appends[a].overlapped /\ appends[b].overlapped
        /\ isConnected

-----------------------------------------------------------------------------
(* Properties of the restore (SpecRestore).                                *)

\* the (text, isUser) pairs of cached turns, and of durable rows
PairsOfTurns(msgs) == [i \in DOMAIN msgs |-> [text |-> msgs[i].text, isUser |-> msgs[i].isUser]]

PairsOfRows(rows) ==
    [i \in DOMAIN rows |-> [text |-> rows[i].message, isUser |-> rows[i].role = "user"]]

\* the durable turns of a session in chronological order: each order of its
\* rows by timestamp
Chronological(s) == {PairsOfRows(rows) : rows \in OrderByTimestamp(RowsOf(s))}

Limits == (1..MaxLimit) \cup {DefaultLimit}

\* this step is a restoreSessionFromStorage(s, ...) that returned restored: true
RestoredNow(s) ==
    /\ last'.op = "restore" /\ last'.sid = s /\ last'.flag
    /\ last' # last

(* C2: for a session whose durable store holds T1..Tn (1 <= n <= limit)    *)
(* and whose cache entry is absent, restoreSessionFromStorage followed by  *)
(* getSessionHistory(S, limit) returns T1..Tn in chronological order, T1   *)
(* first, with isUser true exactly for the rows of role 'user'; with redis *)
(* connected and in fallback mode.                                         *)
RestoreKeepsOrder ==
    [][\A s \in Sessions, limit \in Limits :
          (/\ Cached(s) = <<>>
           /\ RestoredNow(s)
           /\ last'.limit = limit
           /\ Len(RowsOf(s)) <= limit)
          => (/\ getSessionHistory(s, limit, TRUE).status = "ok"
              /\ PairsOfTurns(getSessionHistory(s, limit, TRUE).msgs) \in Chronological(s))'
      ]_vars

IsSuffix(a, b) == Len(a) <= Len(b) /\ a = LastN(b, Len(a))

(* C4: in every reachable state, for every session with a cache entry, the *)
(* chronological sequence of (role, text) pairs in the cache (the list is  *)
(* kept most recent first) is a suffix of the durable sequence of the      *)
(* session; after a restore with a limit below the number of durable turns *)
(* the cache holds the most recent `limit` of them.                        *)
CacheIsSuffixOfDurable ==
    \A s \in Sessions :
        Cached(s) # <<>> =>
            \E durable \in Chronological(s) :
                IsSuffix(PairsOfTurns(Reverse(Cached(s))), durable)

\* the cache entry of a session: its turns and its title
cacheEntry(s) == [turns |-> Cached(s), title |-> storedTitle(s)]

\* the text of the earliest turn of msgs (oldest first) sent by the user
FirstUserText(msgs) == msgs[SetMin({i \in DOMAIN msgs : msgs[i].isUser})].text

(* C22: after a successful restoreSessionFromStorage(S, ...) the stored     *)
(* title of S equals generateTitleFromMessage of the earliest restored turn *)
(* whose role is 'user', with redis connected and in fallback mode.         *)
RestoreTitlesFromFirstUserTurn ==
    [][\A s \in Sessions :
          (/\ RestoredNow(s)
           /\ last'.clean
           /\ \E i \in DOMAIN last'.msgs : last'.msgs[i].isUser)
          => (storedTitle(s) = generateTitleFromMessage(FirstUserText(last.msgs)))'
      ]_vars

(* C8: restoreSessionFromStorage is idempotent: with the durable history   *)
(* unchanged, a second restore of S with the same limit, right after a     *)
(* first, leaves the cache entry of S (turns in order with their fields,   *)
(* and title) as the first left it.                                        *)
RestoreIsIdempotent ==
    [][\A s \in Sessions :
          (/\ last.op = "restore" /\ last.sid = s /\ last.flag
           /\ RestoredNow(s)
           /\ last'.limit = last.limit)
          => cacheEntry(s)' = cacheEntry(s)
      ]_vars

-----------------------------------------------------------------------------
(* Properties of clearSession (SpecDurable).                               *)

(* C10: clearSession(S) changes no durable state: the rows of              *)
(* chat_messages and the transcripts, of S and of every other session, are *)
(* the same after the call as before; and a restoreSessionFromStorage(S)   *)
(* made right after it on a session with durable history, with no store    *)
(* command failing, returns restored: true with all the turns of S.        *)
ClearLeavesDurable ==
    [][/\ last'.op = "clearSession" => UNCHANGED durableVars
       /\ (/\ last.op = "clearSession"
           /\ last'.op = "restore" /\ last'.sid = last.sid /\ last'.clean
           /\ RowsOf(last.sid) # <<>>)
          => (/\ last'.flag
              /\ PairsOfTurns(last'.msgs) \in Chronological(last.sid))
      ]_vars

\* a session with rows has just been cleared while the other session has
\* rows and a transcript is stored
ClearedWithDurableHistory ==
    /\ last.op = "clearSession" /\ last.status = "ok" /\ last.flag
    /\ \A s \in Sessions : RowsOf(s) # <<>>
    /\ transcripts # <<>>

\* what the caller of a method sees of its result
Outcome(call) ==
    [status |-> call.status, flag |-> call.flag, msgs |-> call.msgs, error |-> call.error]

\* what restoreSessionFromStorage returns for a session without durable turns
NoData == [status |-> "ok", flag |-> FALSE, msgs |-> <<>>, error |-> FALSE]

(* C15: a durable-store operation on turns that fails gives its caller an  *)
(* outcome it can tell from success and from 'no data': a saveMessage      *)
(* whose INSERT did not happen does not report a write, and a              *)
(* restoreSessionFromStorage made with the pool not initialised, or on a   *)
(* session that has durable turns, does not return what it returns for a   *)
(* session that has none.                                                  *)
DurableFailuresSurfaced ==
    /\ (last.op = "saveMessage" /\ ~last.clean) => ~last.flag
    /\ (last.op = "restore" /\ (~pool \/ RowsOf(last.sid) # <<>>)) => Outcome(last) # NoData

-----------------------------------------------------------------------------
(* Properties of the restore of a session without durable turns            *)
(* (SpecSession).                                                          *)

(* C13: when the durable store holds no turns of S,                        *)
(* restoreSessionFromStorage(S, store, limit) returns restored: false with *)
(* an empty message list and leaves the cache entry and the title of S as  *)
(* they were.                                                              *)
RestoreOfNothing ==
    [][\A s \in Sessions :
          (last'.op = "restore" /\ last'.sid = s /\ RowsOf(s) = <<>>)
          => (Outcome(last)' = NoData /\ UNCHANGED <<listVars, titleVars>>)
      ]_vars

\* a restore has just found no durable turns for a session that has cached
\* turns and a stored title
RestoredNothingOverCache ==
    /\ last.op = "restore" /\ last.clean /\ Outcome(last) = NoData
    /\ RowsOf(last.sid) = <<>>
    /\ Cached(last.sid) # <<>>
    /\ storedTitle(last.sid) # NoTitle

(* C20: saveSessionTranscript(S, title) stores a transcript of S and       *)
(* returns its transcriptId whenever S has one or more recorded turns:     *)
(* after POST /api/transcripts/save on such a session, and after the       *)
(* auto-save of a chat request that was answered.                          *)
TranscriptSavedWhenTurns ==
    /\ (last.op = "saveSessionTranscript" /\ Cached(last.sid) # <<>>)
          => (last.flag /\ TranscriptsOf(last.sid) # {})
    /\ \A r \in Requests \ Readers :
          (chat[r].pc = "done" /\ chat[r].http = 200) => TranscriptsOf(chat[r].sid) # {}

-----------------------------------------------------------------------------
(* Properties of the transcripts (SpecTranscript).                         *)

(* C18: saveTranscript(S, turnsA, title) followed by                       *)
(* saveTranscript(S, turnsB, title) returns the same transcriptId both     *)
(* times and leaves one transcript row for S, and getTranscript of that id *)
(* then returns exactly the turns of turnsB in the order supplied.         *)
SaveTwiceReplaces ==
    [][(/\ last.op = "saveTranscript" /\ last.status = "ok"
        /\ last'.op = "saveTranscript" /\ last'.status = "ok"
        /\ last'.sid = last.sid)
       => (/\ last'.id = last.id
           /\ Cardinality(TranscriptsOf(last.sid))' = 1
           /\ \A transcript \in getTranscript(last.id)' :
                 transcript.found /\ transcript.messages = last'.msgs)
      ]_vars

\* the (role, content) pairs of a transcript's messages, in insertion order
Content(transcript) ==
    [i \in DOMAIN transcript.messages |->
        [role |-> transcript.messages[i].role, content |-> transcript.messages[i].content]]

(* C19: replacing the turn set of an existing transcript is atomic: a      *)
(* transcript that holds one caller's complete turn set holds, after every *)
(* step, a complete turn set of one caller, whether or not a saveTranscript *)
(* fails part-way through.                                                 *)
ReplaceIsAtomic ==
    [][\A i \in DOMAIN transcripts :
          Content(transcripts[i]) \in TurnSets => Content(transcripts[i])' \in TurnSets
      ]_vars

\* the queries tried: 'Chat' and 'news'
Queries == {<<"C", "h", "a", "t">>, <<"n", "e", "w", "s">>}

(* C21: searchTranscripts(q) returns a transcript if and only if q is a    *)
(* substring of its title or of the text of one of its turns; a transcript *)
(* whose title contains q is returned even when it has no turns.           *)
SearchFindsTitleOrTurn ==
    \A query \in Queries, t \in DOMAIN transcripts :
        t \in searchTranscripts(query) <=>
            \/ Like(transcripts[t].title, query)
            \/ \E m \in DOMAIN transcripts[t].messages :
                  Like(Chars(transcripts[t].messages[m].content), query)

(* C25: in redis mode every existing session list key carries an expiry:   *)
(* in no reachable state does a 'session:<id>' key exist without a TTL.    *)
ListKeysCarryExpiry ==
    \A s \in Sessions : redisList[s] # <<>> => redisTTL[s] > 0

(* C26: when restoreSessionFromStorage(S, ...) returns restored=false, the  *)
(* cache entry of S is what it was before the call: neither deleted nor    *)
(* partially replayed.                                                     *)
FailedRestoreLeavesCache ==
    [][\A s \in Sessions :
          (/\ last'.op = "restore" /\ last'.sid = s /\ ~last'.flag
           /\ last' # last)
          => /\ cacheEntry(s)' = cacheEntry(s)
             /\ redisList'[s] = redisList[s]
             /\ redisTTL'[s] = redisTTL[s]
      ]_vars

-----------------------------------------------------------------------------
(* Properties of the chat handlers (SpecChat).                             *)

(* C3: every turn a chat handler records is, once the handler has written  *)
(* it to the cache, also in the durable rows of the session: when the      *)
(* handler has answered 200, chat_messages holds the user turn and, after  *)
(* it, the assistant turn.                                                 *)
ChatTurnsAreDurable ==
    \A r \in Requests :
        (chat[r].pc = "done" /\ chat[r].http = 200) =>
            \E i, j \in DOMAIN RowsOf(chat[r].sid) :
                /\ i < j
                /\ RowsOf(chat[r].sid)[i].message = chat[r].text
                /\ RowsOf(chat[r].sid)[i].role = "user"
                /\ RowsOf(chat[r].sid)[j].role # "user"

(* C6: once a title is stored for a session, no step of a chat request on  *)
(* it changes the stored title, whether the request runs concurrently with *)
(* the first one or after a clearSession.                                  *)
TitleSetOnce ==
    [][\A s \in Sessions :
          (storedTitle(s) # NoTitle /\ chat' # chat) => storedTitle(s)' = storedTitle(s)
      ]_vars

(* C11: after a clearSession(S) that returned, no cached state of S        *)
(* remains: sessionExists(S) is false, getSessionHistory(S, n) is empty    *)
(* and getSessionTitle(S) is the title derived from the id, not a title    *)
(* stored before; a second clearSession(S) changes nothing and reports     *)
(* success.                                                                *)
ClearLeavesNothing ==
    [][\A s \in Sessions :
          (last'.op = "clearSession" /\ last'.sid = s /\ last'.status = "ok")
          => /\ \A cmdOk \in BOOLEAN, n \in 1..(MaxLen + 1) :
                   /\ sessionExists(s, cmdOk)'.status = "ok" => ~sessionExists(s, cmdOk)'.flag
                   /\ getSessionHistory(s, n, cmdOk)'.status = "ok"
                          => getSessionHistory(s, n, cmdOk)'.msgs = <<>>
                   /\ getSessionTitle(s, cmdOk)' = generateTitleFromId(s)
             /\ (last.op = "clearSession" /\ last.sid = s /\ last.status = "ok")
                   => (last'.flag /\ UNCHANGED <<listVars, titleVars>>)
      ]_vars

-----------------------------------------------------------------------------
(* Properties of the history route (SpecRoutes).                           *)

(* C12: a history read for a session with no cache entry answers 404 and   *)
(* performs no restore: the step that answers leaves the cache, the titles *)
(* and the durable store unchanged, whether or not the durable store holds *)
(* turns of the session.                                                   *)
HistoryReadNotFound ==
    [][\A r \in Readers :
          (chat[r].pc = "exists" /\ chat'[r] # chat[r] /\ Cached(chat[r].sid) = <<>>)
          => (chat'[r].http = 404 /\ UNCHANGED <<listVars, titleVars, durableVars>>)
      ]_vars

-----------------------------------------------------------------------------
(* Properties of the title's expiry (SpecSession).                         *)

(* C23: the stored title of a session expires together with its turn list: *)
(* in every state of redis mode in which the list key of S exists and the  *)
(* title key of S exists, the title's remaining TTL is not shorter than    *)
(* the list's, also after addMessage calls have refreshed the list's TTL.  *)
TitleOutlivesList ==
    \A s \in Sessions :
        (isConnected /\ redisList[s] # <<>> /\ redisTitle[s] # NoTitle)
            => redisTitleTTL[s] >= redisTTL[s]

-----------------------------------------------------------------------------
(* Properties of the cache on two sessions (SpecSessions).                 *)

\* what the cache holds for a session: list, title and TTLs, in both tiers
cached(s) ==
    [list |-> redisList[s], ttl |-> redisTTL[s],
     title |-> redisTitle[s], titleTtl |-> redisTitleTTL[s],
     fallback |-> fallbackStorage.map[s], fallbackTitle |-> fallbackTitles[s]]

SessionOps == {"addMessage", "clearSession", "setSessionTitle", "restore"}

(* C24: sessions are independent: addMessage, clearSession, setSessionTitle *)
(* and restoreSessionFromStorage applied to session A leave the cached     *)
(* turn list, title and TTL of every other session B unchanged.            *)
SessionsAreIndependent ==
    [][\A A, B \in Sessions :
          (A # B /\ last'.op \in SessionOps /\ last'.sid = A)
          => cached(B)' = cached(B)
      ]_vars

\* an operation on s1 has acted while s2 has a list and a title in the cache
OtherSessionCached ==
    /\ last.op \in {"clearSession", "restore"} /\ last.sid = "s1" /\ last.flag
    /\ redisList["s2"] # <<>>
    /\ redisTitle["s2"] # NoTitle

-----------------------------------------------------------------------------
(* Properties of overlapping restores (SpecReplay).                        *)

\* how many elements of seq are x
Count(seq, x) == Cardinality({i \in DOMAIN seq : seq[i] = x})

(* C27: when two restoreSessionFromStorage calls for the same session run  *)
(* concurrently against the same durable history T1..Tn, then after both   *)
(* have returned the cached list of the session contains each of T1..Tn    *)
(* exactly once.                                                           *)
ReplayedOnce ==
    \A c, d \in RestoreCalls :
        (/\ c # d
         /\ restores[c].pc = "returned" /\ restores[d].pc = "returned"
         /\ restores[c].flag /\ restores[d].flag
         /\ restores[c].sid = restores[d].sid
         /\ PairsOfTurns(restores[c].msgs) = PairsOfTurns(restores[d].msgs))
        => LET turns == PairsOfTurns(restores[c].msgs)
               list == PairsOfTurns(Cached(restores[c].sid))
           IN  \A x \in Elements(turns) \cup Elements(list) :
                   Count(list, x) = Count(turns, x)

-----------------------------------------------------------------------------
(* Properties of ChatService's conversation context (SpecContext,          *)
(* SpecChat).                                                              *)

(* C29: after any sequence of addToHistory / processMessage calls on a     *)
(* session, session.history has at most 10 entries and equals the last     *)
(* min(10, k) of the k (role, content) entries ever appended to the        *)
(* session, in append order.                                               *)
HistoryIsLastTen ==
    \A s \in Sessions :
        /\ Len(sessions[s].history) <= 10
        /\ sessions[s].history = Last(appended[s], Min(10, Len(appended[s])))

\* more entries have been appended than the history keeps
HistoryTruncated ==
    /\ Len(appended["s1"]) > 10
    /\ Len(sessions["s1"].history) = 10

(* C30: after DELETE /api/session/:sessionId has cleared a session, the     *)
(* conversation history that the next chat request on it passes to the     *)
(* language model (ChatService's session.history) is empty.                *)
ClearEmptiesContext ==
    \A s \in Sessions :
        (last.op = "clearSession" /\ last.sid = s /\ last.flag)
            => sessions[s].history = <<>>

-----------------------------------------------------------------------------
(* Properties of the history route's two reads (SpecRoutes).               *)

(* C28: the history route never answers 'exists: true' with an empty       *)
(* history: in every interleaving with clearSession and connectivity       *)
(* changes, a 200 response to a read of one or more turns carries one or   *)
(* more turns.                                                             *)
HistoryAnswerHasTurns ==
    [][\A r \in Readers :
          (/\ chat[r].pc = "read"
           /\ chat'[r].http = 200
           /\ last'.limit >= 1)
          => last'.msgs # <<>>
      ]_vars

-----------------------------------------------------------------------------
(* Properties of the cleanup (SpecCleanup).                                *)

(* C7: every clearSession that cleanupEmptySessions issues hits a session  *)
(* whose cached turn count is zero at that moment, in every interleaving   *)
(* with addMessage calls, clears and TTL expiry.                           *)
CleanupClearsOnlyEmpty ==
    [][(/\ cleanup.pc = "sweep"
        /\ cleanup' # cleanup
        /\ Head(cleanup.sessions).messageCount = 0)
       => Cached(Head(cleanup.sessions).sessionId) = <<>>
      ]_vars

====
